---- MODULE Spec2Model ----
(***************************************************************************)
(* Model of nanobot's shell execution tool (nanobot/agent/tools/shell.py): *)
(* ExecTool.__init__, ExecTool.execute, ExecTool._guard_command,           *)
(* ExecTool._extract_absolute_paths, ExecTool._add_to_history and          *)
(* _detect_shell, on a POSIX host.                                         *)
(*                                                                         *)
(* Strings whose characters the code inspects (commands, paths, the shell  *)
(* path) are sequences of one-character strings.  Regular expressions are  *)
(* syntax trees interpreted by Ends/Search the way re.search interprets    *)
(* the pattern text.  The strings execute returns are sequences of pieces  *)
(* (a literal, a decimal number, a run of output characters), each with    *)
(* the number of characters it holds, so that len() and slicing are        *)
(* computed on the real lengths.                                           *)
(***************************************************************************)
EXTENDS Integers, Sequences, FiniteSets, TLC

(***************************************************************************)
(* Characters and str methods                                              *)
(***************************************************************************)
UpperAlpha ==
    <<"A","B","C","D","E","F","G","H","I","J","K","L","M",
      "N","O","P","Q","R","S","T","U","V","W","X","Y","Z">>

LowerAlpha ==
    <<"a","b","c","d","e","f","g","h","i","j","k","l","m",
      "n","o","p","q","r","s","t","u","v","w","x","y","z">>

Range(f) == {f[i] : i \in DOMAIN f}

Letters == Range(UpperAlpha) \cup Range(LowerAlpha)

Digits == {"0","1","2","3","4","5","6","7","8","9"}

\* \w of the re module (ASCII part)
WordChars == Letters \cup Digits \cup {"_"}

\* \s of the re module, and the characters str.strip() removes
Whitespace == {" ", "\t", "\n", "\r", "\f"}

\* str.lower() on one character
LowerChar(ch) ==
    IF ch \in Range(UpperAlpha)
    THEN LowerAlpha[CHOOSE i \in DOMAIN UpperAlpha : UpperAlpha[i] = ch]
    ELSE ch

\* str.lower()
Lower(s) == [i \in DOMAIN s |-> LowerChar(s[i])]

\* str.strip()
RECURSIVE LStrip(_)
LStrip(s) ==
    IF s # <<>> /\ Head(s) \in Whitespace THEN LStrip(Tail(s)) ELSE s

RECURSIVE RStrip(_)
RStrip(s) ==
    IF s # <<>> /\ s[Len(s)] \in Whitespace
    THEN RStrip(SubSeq(s, 1, Len(s) - 1))
    ELSE s

Strip(s) == RStrip(LStrip(s))

\* `sub in s` for strings
Contains(s, sub) ==
    \E i \in 0..(Len(s) - Len(sub)) : SubSeq(s, i + 1, i + Len(sub)) = sub

(***************************************************************************)
(* Regular expressions: the part of the re syntax the tool's patterns use. *)
(* A pattern is a tree; Ends(re, s, i) is the set of positions at which a  *)
(* match of re that starts at position i of s can end (positions count     *)
(* the characters already consumed, 0..Len(s)).                            *)
(***************************************************************************)
Chr(cs) == [t |-> "chr", cs |-> cs]                \* one character of cs
NotChr(cs) == [t |-> "not", cs |-> cs]             \* [^...], and . as [^\n]
Bol == [t |-> "bol"]                               \* ^
WordB == [t |-> "wb"]                              \* \b
Cat(rs) == [t |-> "cat", rs |-> rs]                \* concatenation
Alt(rs) == [t |-> "alt", rs |-> rs]                \* a|b
Rep(r, lo, hi) == [t |-> "rep", r |-> r, lo |-> lo, hi |-> hi]  \* r{lo,hi}
Plus(r) == [t |-> "rep", r |-> r, lo |-> 1, hi |-> -1]          \* r+
Star(r) == [t |-> "rep", r |-> r, lo |-> 0, hi |-> -1]          \* r*
Lit(s) == Cat([i \in DOMAIN s |-> Chr({s[i]})])    \* literal text
Bad == [t |-> "bad"]                               \* text re.compile rejects
Space == Chr(Whitespace)                           \* \s

IsWord(s, k) == k >= 1 /\ k <= Len(s) /\ s[k] \in WordChars

\* \b at position i: exactly one of the neighbours is a word character
WordBoundary(s, i) == IsWord(s, i) # IsWord(s, i + 1)

RECURSIVE Ends(_, _, _), EndsCat(_, _, _), EndsRep(_, _, _, _, _, _)
Ends(re, s, i) ==
    CASE re.t = "chr" -> IF i < Len(s) /\ s[i + 1] \in re.cs THEN {i + 1} ELSE {}
      [] re.t = "not" -> IF i < Len(s) /\ s[i + 1] \notin re.cs THEN {i + 1} ELSE {}
      [] re.t = "bol" -> IF i = 0 THEN {i} ELSE {}
      [] re.t = "wb"  -> IF WordBoundary(s, i) THEN {i} ELSE {}
      [] re.t = "cat" -> EndsCat(re.rs, s, {i})
      [] re.t = "alt" -> UNION {Ends(re.rs[k], s, i) : k \in DOMAIN re.rs}
      [] re.t = "rep" -> EndsRep(re.r, re.lo, re.hi, s, {i}, 0)
      [] OTHER -> {}

EndsCat(rs, s, from) ==
    IF rs = <<>> \/ from = {}
    THEN from
    ELSE EndsCat(Tail(rs), s, UNION {Ends(Head(rs), s, i) : i \in from})

\* `from` holds the ends after n repetitions
EndsRep(r, lo, hi, s, from, n) ==
    LET here == IF n >= lo THEN from ELSE {}
        next == UNION {Ends(r, s, i) : i \in from}
    IN IF from = {} \/ n = hi \/ n > Len(s)
       THEN here
       ELSE here \cup EndsRep(r, lo, hi, s, next, n + 1)

\* does the pattern text compile?
RECURSIVE Compiles(_)
Compiles(re) ==
    CASE re.t = "bad" -> FALSE
      [] re.t \in {"cat", "alt"} -> \A k \in DOMAIN re.rs : Compiles(re.rs[k])
      [] re.t = "rep" -> Compiles(re.r)
      [] OTHER -> TRUE

\* re.search(pattern, s) is not None, for a pattern that compiles
Search(re, s) == \E i \in 0..Len(s) : Ends(re, s, i) # {}

(***************************************************************************)
(* Optional values: None, or a value.  `x or y` takes y when x is None or  *)
(* empty.                                                                  *)
(***************************************************************************)
None == [some |-> FALSE, v |-> <<>>]

Some(v) == [some |-> TRUE, v |-> v]

Falsy(o) == ~o.some \/ o.v = <<>>

(***************************************************************************)
(* pathlib on a POSIX host without symbolic links.  A resolved path is     *)
(* the sequence of its components below the root: always absolute.         *)
(***************************************************************************)
\* the text of s up to the first "/" (all of s when there is none)
RECURSIVE FirstComponent(_)
FirstComponent(s) ==
    IF s = <<>> \/ Head(s) = "/"
    THEN <<>>
    ELSE <<Head(s)>> \o FirstComponent(Tail(s))

\* str.split("/")
RECURSIVE SplitSlash(_)
SplitSlash(s) ==
    LET c == FirstComponent(s)
    IN IF Len(c) = Len(s)
       THEN <<c>>
       ELSE <<c>> \o SplitSlash(SubSeq(s, Len(c) + 2, Len(s)))

\* walk the components: "" and "." stay, ".." goes to the parent
RECURSIVE Walk(_, _)
Walk(at, comps) ==
    IF comps = <<>> THEN at
    ELSE LET c == Head(comps)
         IN IF c = <<>> \/ c = <<".">>
            THEN Walk(at, Tail(comps))
            ELSE IF c = <<".", ".">>
            THEN Walk(IF at = <<>> THEN at ELSE SubSeq(at, 1, Len(at) - 1), Tail(comps))
            ELSE Walk(Append(at, c), Tail(comps))

PathIsAbsolute(s) == s # <<>> /\ Head(s) = "/"

\* Path(s).resolve(): a relative path is resolved against os.getcwd(), which
\* raises FileNotFoundError when the host's current directory is gone.
\* hostCwd is an optional path text.
Resolve(s, hostCwd) ==
    IF PathIsAbsolute(s)
    THEN [raise |-> FALSE, path |-> Walk(<<>>, SplitSlash(s))]
    ELSE IF ~hostCwd.some
    THEN [raise |-> TRUE, path |-> <<>>]
    ELSE [raise |-> FALSE,
          path |-> Walk(Walk(<<>>, SplitSlash(hostCwd.v)), SplitSlash(s))]

\* a = b or a in b.parents
IsPrefix(a, b) == Len(a) <= Len(b) /\ SubSeq(b, 1, Len(a)) = a

(***************************************************************************)
(* ExecTool._extract_absolute_paths                                        *)
(***************************************************************************)
\* [^\s"'|><;]
WinStop == Whitespace \cup {"\"", "'", "|", ">", "<", ";"}

\* [^\s"'>]
PosixStop == Whitespace \cup {"\"", "'", ">"}

\* [\s|>]
PosixLead == Whitespace \cup {"|", ">"}

\* the last index of the longest run from k of characters outside stop
RECURSIVE RunEnd(_, _, _)
RunEnd(s, k, stop) ==
    IF k < Len(s) /\ s[k + 1] \notin stop THEN RunEnd(s, k + 1, stop) ELSE k

\* re.findall(r"[A-Za-z]:\\[^\s\"'|><;]+", s), scanning from index i
RECURSIVE WinPaths(_, _)
WinPaths(s, i) ==
    IF i > Len(s) THEN <<>>
    ELSE IF /\ i + 3 <= Len(s)
            /\ s[i] \in Letters
            /\ s[i + 1] = ":"
            /\ s[i + 2] = "\\"
            /\ s[i + 3] \notin WinStop
    THEN LET e == RunEnd(s, i + 3, WinStop)
         IN <<SubSeq(s, i, e)>> \o WinPaths(s, e + 1)
    ELSE WinPaths(s, i + 1)

\* re.findall(r"(?:^|[\s|>])(/[^\s\"'>]+)", s), scanning from index i
RECURSIVE PosixPaths(_, _)
PosixPaths(s, i) ==
    IF i > Len(s) THEN <<>>
    ELSE IF /\ i = 1
            /\ i + 1 <= Len(s)
            /\ s[i] = "/"
            /\ s[i + 1] \notin PosixStop
    THEN LET e == RunEnd(s, i + 1, PosixStop)
         IN <<SubSeq(s, i, e)>> \o PosixPaths(s, e + 1)
    ELSE IF /\ i + 2 <= Len(s)
            /\ s[i] \in PosixLead
            /\ s[i + 1] = "/"
            /\ s[i + 2] \notin PosixStop
    THEN LET e == RunEnd(s, i + 2, PosixStop)
         IN <<SubSeq(s, i + 1, e)>> \o PosixPaths(s, e + 1)
    ELSE PosixPaths(s, i + 1)

_extract_absolute_paths(command) == WinPaths(command, 1) \o PosixPaths(command, 1)

(***************************************************************************)
(* ExecTool._guard_command                                                 *)
(***************************************************************************)
MsgDangerous == "Error: Command blocked by safety guard (dangerous pattern detected)"

MsgNotAllowed == "Error: Command blocked by safety guard (not in allowlist)"

MsgTraversal == "Error: Command blocked by safety guard (path traversal detected)"

MsgOutside == "Error: Command blocked by safety guard (path outside working dir)"

GuardMessages == {MsgDangerous, MsgNotAllowed, MsgTraversal, MsgOutside}

\* what a function call comes to: a returned value, or an exception
Return(v) == [raise |-> FALSE, ret |-> v]

Raise(e) == [raise |-> TRUE, ret |-> e]

\* the loop `for pattern in patterns: if re.search(pattern, lower): ...`, also
\* any(re.search(p, lower) for p in patterns): "match" at the first pattern
\* that matches, "raise" when a pattern reached before it does not compile
RECURSIVE SearchAny(_, _)
SearchAny(patterns, lower) ==
    IF patterns = <<>> THEN "none"
    ELSE IF ~Compiles(Head(patterns)) THEN "raise"
    ELSE IF Search(Head(patterns), lower) THEN "match"
    ELSE SearchAny(Tail(patterns), lower)

\* AnyOutside without line 168's `and p != cwd_path`
RECURSIVE AnyOutsideStrict(_, _, _)
AnyOutsideStrict(raws, cwd_path, hostCwd) ==
    IF raws = <<>> THEN FALSE
    ELSE LET p == Resolve(Strip(Head(raws)), hostCwd)
         IN IF p.raise
            THEN AnyOutsideStrict(Tail(raws), cwd_path, hostCwd)
            ELSE IF ~(IsPrefix(cwd_path, p.path) /\ p.path # cwd_path)
            THEN TRUE
            ELSE AnyOutsideStrict(Tail(raws), cwd_path, hostCwd)

\* the loop over the extracted paths: is one of them outside cwd_path?
RECURSIVE AnyOutside(_, _, _)
AnyOutside(raws, cwd_path, hostCwd) ==
    IF raws = <<>> THEN FALSE
    ELSE LET p == Resolve(Strip(Head(raws)), hostCwd)
         IN IF p.raise
            THEN AnyOutside(Tail(raws), cwd_path, hostCwd)
            ELSE IF ~IsPrefix(cwd_path, p.path)
            THEN TRUE
            ELSE AnyOutside(Tail(raws), cwd_path, hostCwd)

\* WorkspaceCheck with lines 158-159 moved below the loop of lines 163-169
WorkspaceCheckPathsFirst(self, cmd, cwd, hostCwd) ==
    LET cwd_path == Resolve(cwd, hostCwd)
    IN IF cwd_path.raise
       THEN Raise("FileNotFoundError")
       ELSE IF AnyOutside(_extract_absolute_paths(cmd), cwd_path.path, hostCwd)
       THEN Return(MsgOutside)
       ELSE IF Contains(cmd, <<".", ".", "\\">>) \/ Contains(cmd, <<".", ".", "/">>)
       THEN Return(MsgTraversal)
       ELSE Return("None")

\* lines 157-171: the checks made when restrict_to_workspace is set
WorkspaceCheck(self, cmd, cwd, hostCwd) ==
    IF Contains(cmd, <<".", ".", "\\">>) \/ Contains(cmd, <<".", ".", "/">>)
    THEN Return(MsgTraversal)
    ELSE LET cwd_path == Resolve(cwd, hostCwd)
         IN IF cwd_path.raise
            THEN Raise("FileNotFoundError")
            ELSE IF AnyOutside(_extract_absolute_paths(cmd), cwd_path.path, hostCwd)
            THEN Return(MsgOutside)
            ELSE Return("None")

\* AllowCheck without lines 153-155: the allow-list is never consulted
AllowCheckSkipped(self, cmd, lower, cwd, hostCwd) ==
    IF self.restrict_to_workspace
    THEN WorkspaceCheck(self, cmd, cwd, hostCwd)
    ELSE Return("None")

\* lines 153-171: the allow-list, then the checks of restrict_to_workspace
AllowCheck(self, cmd, lower, cwd, hostCwd) ==
    LET allowed == IF self.allow_patterns # <<>>
                   THEN SearchAny(self.allow_patterns, lower)
                   ELSE "match"
    IN IF allowed = "raise" THEN Raise("re.error")
       ELSE IF allowed = "none" THEN Return(MsgNotAllowed)
       ELSE IF self.restrict_to_workspace
       THEN WorkspaceCheck(self, cmd, cwd, hostCwd)
       ELSE Return("None")

\* _guard_command with the allow-list of lines 153-155 moved above the
\* deny loop of lines 149-151
_guard_command_AllowFirst(self, command, cwd, hostCwd) ==
    LET cmd == Strip(command)
        lower == Lower(cmd)
        allowed == IF self.allow_patterns # <<>>
                   THEN SearchAny(self.allow_patterns, lower)
                   ELSE "match"
        denied == SearchAny(self.deny_patterns, lower)
    IN IF allowed = "raise" THEN Raise("re.error")
       ELSE IF allowed = "none" THEN Return(MsgNotAllowed)
       ELSE IF denied = "raise" THEN Raise("re.error")
       ELSE IF denied = "match" THEN Return(MsgDangerous)
       ELSE IF self.restrict_to_workspace
       THEN WorkspaceCheck(self, cmd, cwd, hostCwd)
       ELSE Return("None")

\* lines 144-171: the guard's decision on a command to run in cwd
_guard_command(self, command, cwd, hostCwd) ==
    LET cmd == Strip(command)
        lower == Lower(cmd)
        denied == SearchAny(self.deny_patterns, lower)
    IN IF denied = "raise" THEN Raise("re.error")
       ELSE IF denied = "match" THEN Return(MsgDangerous)
       ELSE AllowCheck(self, cmd, lower, cwd, hostCwd)

(***************************************************************************)
(* _detect_shell and ExecTool.__init__                                     *)
(***************************************************************************)
\* the shells tried, in order
ShellNames == << <<"f","i","s","h">>, <<"b","a","s","h">>, <<"z","s","h">>, <<"s","h">> >>

BinSh == <<"/","b","i","n","/","s","h">>

\* which: shell name -> optional path (shutil.which on the host)
RECURSIVE FirstFound(_, _)
FirstFound(names, which) ==
    IF names = <<>> THEN BinSh
    ELSE IF ~Falsy(which[Head(names)]) THEN which[Head(names)].v
    ELSE FirstFound(Tail(names), which)

_detect_shell(which) == FirstFound(ShellNames, which)

\* the built-in deny patterns
DefaultDenyPatterns ==
    << \* \brm\s+-[rf]{1,2}\b
       Cat(<<WordB, Lit(<<"r","m">>), Plus(Space), Lit(<<"-">>),
             Rep(Chr({"r","f"}), 1, 2), WordB>>),
       \* \bdel\s+/[fq]\b
       Cat(<<WordB, Lit(<<"d","e","l">>), Plus(Space), Lit(<<"/">>),
             Chr({"f","q"}), WordB>>),
       \* \brmdir\s+/s\b
       Cat(<<WordB, Lit(<<"r","m","d","i","r">>), Plus(Space), Lit(<<"/","s">>), WordB>>),
       \* (?:^|[;&|]\s*)format\b
       Cat(<<Alt(<<Bol, Cat(<<Chr({";","&","|"}), Star(Space)>>)>>),
             Lit(<<"f","o","r","m","a","t">>), WordB>>),
       \* \b(mkfs|diskpart)\b
       Cat(<<WordB, Alt(<<Lit(<<"m","k","f","s">>),
                          Lit(<<"d","i","s","k","p","a","r","t">>)>>), WordB>>),
       \* \bdd\s+if=
       Cat(<<WordB, Lit(<<"d","d">>), Plus(Space), Lit(<<"i","f","=">>)>>),
       \* >\s*/dev/sd
       Cat(<<Lit(<<">">>), Star(Space), Lit(<<"/","d","e","v","/","s","d">>)>>),
       \* \b(shutdown|reboot|poweroff)\b
       Cat(<<WordB, Alt(<<Lit(<<"s","h","u","t","d","o","w","n">>),
                          Lit(<<"r","e","b","o","o","t">>),
                          Lit(<<"p","o","w","e","r","o","f","f">>)>>), WordB>>),
       \* :\(\)\s*\{.*\};\s*:
       Cat(<<Lit(<<":","(",")">>), Star(Space), Lit(<<"{">>), Star(NotChr({"\n"})),
             Lit(<<"}",";">>), Star(Space), Lit(<<":">>)>>) >>

\* the arguments' defaults
DefaultArgs ==
    [timeout |-> 60, working_dir |-> None, deny_patterns |-> None,
     allow_patterns |-> None, restrict_to_workspace |-> FALSE, path_append |-> <<>>]

\* ExecTool(**args) on a host whose shell lookup is `which`
__init__(args, which) ==
    [timeout |-> args.timeout,
     working_dir |-> args.working_dir,
     deny_patterns |-> IF Falsy(args.deny_patterns)
                       THEN DefaultDenyPatterns
                       ELSE args.deny_patterns.v,
     allow_patterns |-> IF Falsy(args.allow_patterns)
                        THEN <<>>
                        ELSE args.allow_patterns.v,
     restrict_to_workspace |-> args.restrict_to_workspace,
     path_append |-> args.path_append,
     shell |-> _detect_shell(which)]

(***************************************************************************)
(* The strings execute returns: sequences of pieces.  A piece is a literal *)
(* (s), a number in decimal (i), or a run of decoded output characters;    *)
(* n is the number of its characters that are present (slicing can cut a   *)
(* piece short).                                                           *)
(***************************************************************************)
\* len(str(i))
RECURSIVE DecLen(_)
DecLen(i) ==
    IF i < 0 THEN 1 + DecLen(-i)
    ELSE IF i < 10 THEN 1
    ELSE 1 + DecLen(i \div 10)

LitP(s) == [k |-> "lit", s |-> s, i |-> 0, n |-> Len(s)]

IntP(i) == [k |-> "int", s |-> "", i |-> i, n |-> DecLen(i)]

\* n characters of decoded stdout ("out") or stderr ("err")
RunP(k, n) == [k |-> k, s |-> "", i |-> 0, n |-> n]

\* str(e) of exception e; nothing reads its length
ExcP(e) == [k |-> "exc", s |-> e, i |-> 0, n |-> 0]

\* len(text)
RECURSIVE TextLen(_)
TextLen(text) ==
    IF text = <<>> THEN 0 ELSE Head(text).n + TextLen(Tail(text))

\* text[:m]
RECURSIVE Take(_, _)
Take(text, m) ==
    IF text = <<>> \/ m <= 0 THEN <<>>
    ELSE IF Head(text).n <= m
    THEN <<Head(text)>> \o Take(Tail(text), m - Head(text).n)
    ELSE <<[Head(text) EXCEPT !.n = m]>>

\* "\n".join(parts)
RECURSIVE Join(_)
Join(parts) ==
    IF parts = <<>> THEN <<>>
    ELSE IF Len(parts) = 1 THEN Head(parts)
    ELSE Head(parts) \o <<LitP("\n")>> \o Join(Tail(parts))

max_len == 10000

\* Truncate that counts one elided character too few
TruncateOffByOne(result) ==
    IF TextLen(result) > max_len
    THEN Take(result, max_len)
           \o <<LitP("\n... (truncated, "), IntP(TextLen(result) - max_len - 1),
                LitP(" more chars)")>>
    ELSE result

\* lines 131-134 of execute: truncate very long output
Truncate(result) ==
    IF TextLen(result) > max_len
    THEN Take(result, max_len)
           \o <<LitP("\n... (truncated, "), IntP(TextLen(result) - max_len),
                LitP(" more chars)")>>
    ELSE result

\* lines 116-129 of execute.  stdout and stderr are the decoded texts:
\* n characters, of which stderr's may all be whitespace (blank).
OutputParts(stdout, stderr, returncode) ==
    (IF stdout.n > 0 THEN << <<RunP("out", stdout.n)>> >> ELSE <<>>)
    \o (IF stderr.n > 0 /\ ~stderr.blank
        THEN << <<LitP("STDERR:\n"), RunP("err", stderr.n)>> >>
        ELSE <<>>)
    \o (IF returncode # 0
        THEN << <<LitP("\nExit code: "), IntP(returncode)>> >>
        ELSE <<>>)

Joined(output_parts) ==
    IF output_parts # <<>> THEN Join(output_parts) ELSE <<LitP("(no output)")>>

\* lines 116-134 of execute: the result of a completed command
Render(stdout, stderr, returncode) ==
    Truncate(Joined(OutputParts(stdout, stderr, returncode)))

\* line 114
TimeoutMessage(timeout) ==
    <<LitP("Error: Command timed out after "), IntP(timeout), LitP(" seconds")>>

\* line 142
ErrorMessage(e) == <<LitP("Error executing command: "), ExcP(e)>>

(***************************************************************************)
(* The tool at run time.                                                   *)
(*   self     the ExecTool's attributes, as __init__ set them              *)
(*   args     the arguments the ExecTool was constructed with              *)
(*   environ  os.environ of the host process: variable -> optional text    *)
(*   hostCwd  the host process's current directory (None: it was removed,  *)
(*            os.getcwd() raises)                                          *)
(*   calls    one entry per execute call: where its coroutine stands (pc)  *)
(*            and its local variables                                      *)
(*   procs    the subprocesses created so far, in creation order; a        *)
(*            Process handle is an index into it                           *)
(***************************************************************************)
VARIABLES self, args, environ, hostCwd, calls, procs

vars == <<self, args, environ, hostCwd, calls, procs>>

NumCalls == 2

Calls == 1..NumCalls

EnvNames == {"PATH", "HOME"}

\* os.pathsep
pathsep == <<":">>

\* an execute call that has not started
IdleCall ==
    [pc |-> "idle", command |-> <<>>, cwd |-> <<>>, env |-> [v \in EnvNames |-> None],
     guard |-> "", process |-> 0, timedOut |-> FALSE, drain |-> "", history |-> "",
     result |-> <<>>, exc |-> ""]

NoOutput == [n |-> 0, blank |-> FALSE]

\* asyncio.create_subprocess_exec(shell, "-c", arg, cwd=cwd, env=env)
NewProcess(c, kind, shell, arg, cwd, env) ==
    [owner |-> c, kind |-> kind, shell |-> shell, arg |-> arg, cwd |-> cwd, env |-> env,
     st |-> "running", killed |-> FALSE, returncode |-> 0,
     stdout |-> NoOutput, stderr |-> NoOutput]

\* line 81: cwd = working_dir or self.working_dir or os.getcwd()
ChooseCwd(working_dir) ==
    IF ~Falsy(working_dir) THEN Return(working_dir.v)
    ELSE IF ~Falsy(self.working_dir) THEN Return(self.working_dir.v)
    ELSE IF hostCwd.some THEN Return(hostCwd.v)
    ELSE Raise("FileNotFoundError")

\* ChildEnv that puts path_append in front of PATH
ChildEnvPrepend ==
    IF self.path_append # <<>>
    THEN [environ EXCEPT !["PATH"] =
             Some(self.path_append \o pathsep
                  \o (IF environ["PATH"].some THEN environ["PATH"].v ELSE <<>>))]
    ELSE environ

\* lines 86-88: env = os.environ.copy(), PATH extended by path_append
ChildEnv ==
    IF self.path_append # <<>>
    THEN [environ EXCEPT !["PATH"] =
             Some((IF environ["PATH"].some THEN environ["PATH"].v ELSE <<>>)
                  \o pathsep \o self.path_append)]
    ELSE environ

\* Started without the early return of lines 83-84
StartedUnguarded(c, command, working_dir) ==
    LET cwd == ChooseCwd(working_dir)
        guard_error == _guard_command(self, command, cwd.ret, hostCwd)
        call == [calls[c] EXCEPT !.command = command]
    IN IF cwd.raise
       THEN [call EXCEPT !.pc = "raised", !.exc = cwd.ret]
       ELSE IF guard_error.raise
       THEN [call EXCEPT !.pc = "raised", !.exc = guard_error.ret, !.cwd = cwd.ret,
                         !.guard = "raise"]
       ELSE [call EXCEPT !.pc = "spawn", !.cwd = cwd.ret, !.guard = guard_error.ret,
                         !.env = ChildEnv]

\* lines 81-88 of execute, up to the first await: the call after them
Started(c, command, working_dir) ==
    LET cwd == ChooseCwd(working_dir)
        guard_error == _guard_command(self, command, cwd.ret, hostCwd)
        call == [calls[c] EXCEPT !.command = command]
    IN IF cwd.raise
       THEN [call EXCEPT !.pc = "raised", !.exc = cwd.ret]
       ELSE IF guard_error.raise
       THEN [call EXCEPT !.pc = "raised", !.exc = guard_error.ret, !.cwd = cwd.ret,
                         !.guard = "raise"]
       ELSE IF guard_error.ret # "None"
       THEN [call EXCEPT !.pc = "done", !.cwd = cwd.ret, !.guard = guard_error.ret,
                         !.result = <<LitP(guard_error.ret)>>]
       ELSE [call EXCEPT !.pc = "spawn", !.cwd = cwd.ret, !.guard = "None",
                         !.env = ChildEnv]

\* execute(command, working_dir) is called and runs to its first await
Execute(c, command, working_dir) ==
    /\ calls[c].pc = "idle"
    /\ calls' = [calls EXCEPT ![c] = Started(c, command, working_dir)]
    /\ UNCHANGED <<self, args, environ, hostCwd, procs>>

\* lines 91-99: the subprocess is created
SpawnOk(c) ==
    /\ calls[c].pc = "spawn"
    /\ procs' = Append(procs, NewProcess(c, "command", self.shell, calls[c].command,
                                         Some(calls[c].cwd), calls[c].env))
    /\ calls' = [calls EXCEPT ![c].pc = "communicate", ![c].process = Len(procs) + 1]
    /\ UNCHANGED <<self, args, environ, hostCwd>>

\* lines 91-99, 141-142: create_subprocess_exec raises (no such shell or
\* directory, no permission, no more processes)
SpawnFail(c) ==
    /\ calls[c].pc = "spawn"
    /\ calls' = [calls EXCEPT ![c].pc = "done", ![c].exc = "OSError",
                              ![c].result = ErrorMessage("OSError")]
    /\ UNCHANGED <<self, args, environ, hostCwd, procs>>

\* a subprocess exits, having written stdout and stderr; a killed one has
\* the return code of the signal
ProcExit(p, stdout, stderr, returncode) ==
    /\ p \in DOMAIN procs
    /\ procs[p].st = "running"
    /\ procs[p].kind = "history" => stdout.n = 0 /\ stderr.n = 0
    /\ procs' = [procs EXCEPT ![p].st = "exited",
                              ![p].stdout = stdout,
                              ![p].stderr = stderr,
                              ![p].returncode = IF procs[p].killed THEN -9 ELSE returncode]
    /\ UNCHANGED <<self, args, environ, hostCwd, calls>>

\* line 181: "fish" in self.shell
UsesFish == Contains(self.shell, <<"f","i","s","h">>)

\* CommunicateDone without the test of line 181
CommunicateDoneAnyShell(c) ==
    /\ calls[c].pc = "communicate"
    /\ procs[calls[c].process].st = "exited"
    /\ LET process == procs[calls[c].process]
           result == Render(process.stdout, process.stderr, process.returncode)
       IN calls' = [calls EXCEPT ![c].result = result, ![c].pc = "history"]
    /\ UNCHANGED <<self, args, environ, hostCwd, procs>>

\* CommunicateDone that does not wait for the process to end: it renders
\* what the process has written so far
CommunicateDoneEarly(c) ==
    /\ calls[c].pc = "communicate"
    /\ LET process == procs[calls[c].process]
           result == Render(process.stdout, process.stderr, process.returncode)
       IN calls' = [calls EXCEPT ![c].result = result,
                                 ![c].pc = IF UsesFish THEN "history" ELSE "done"]
    /\ UNCHANGED <<self, args, environ, hostCwd, procs>>

\* CommunicateDone of a tool that keeps the process handle in an attribute:
\* the output rendered is that of the subprocess created last
CommunicateDoneLastProcess(c) ==
    /\ calls[c].pc = "communicate"
    /\ procs[calls[c].process].st = "exited"
    /\ LET process == procs[Len(procs)]
           result == Render(process.stdout, process.stderr, process.returncode)
       IN calls' = [calls EXCEPT ![c].result = result,
                                 ![c].pc = IF UsesFish THEN "history" ELSE "done"]
    /\ UNCHANGED <<self, args, environ, hostCwd, procs>>

\* lines 102-105, 116-137: communicate() returns in time; the result is
\* rendered; _add_to_history returns at once for another shell than fish
\* (and execute returns), or awaits the creation of the history process
CommunicateDone(c) ==
    /\ calls[c].pc = "communicate"
    /\ procs[calls[c].process].st = "exited"
    /\ LET process == procs[calls[c].process]
           result == Render(process.stdout, process.stderr, process.returncode)
       IN calls' = [calls EXCEPT ![c].result = result,
                                 ![c].pc = IF UsesFish THEN "history" ELSE "done"]
    /\ UNCHANGED <<self, args, environ, hostCwd, procs>>

\* lines 102-105, 141-142: the wait raises something else than TimeoutError
CommunicateFail(c) ==
    /\ calls[c].pc = "communicate"
    /\ calls' = [calls EXCEPT ![c].pc = "done", ![c].exc = "Exception",
                              ![c].result = ErrorMessage("Exception")]
    /\ UNCHANGED <<self, args, environ, hostCwd, procs>>

\* line 106: self.timeout seconds have passed: wait_for cancels communicate()
\* and raises TimeoutError
Timeout(c) ==
    /\ calls[c].pc = "communicate"
    /\ calls' = [calls EXCEPT ![c].pc = "kill", ![c].timedOut = TRUE]
    /\ UNCHANGED <<self, args, environ, hostCwd, procs>>

\* Kill without line 107
KillSkipped(c) ==
    /\ calls[c].pc = "kill"
    /\ calls' = [calls EXCEPT ![c].pc = "drain"]
    /\ UNCHANGED <<self, args, environ, hostCwd, procs>>

\* Kill that signals every running subprocess of the tool
KillAll(c) ==
    /\ calls[c].pc = "kill"
    /\ IF procs[calls[c].process].st = "exited"
       THEN /\ calls' = [calls EXCEPT ![c].pc = "done", ![c].exc = "ProcessLookupError",
                                      ![c].result = <<LitP("Error executing command: "), ExcP("")>>]
            /\ UNCHANGED procs
       ELSE /\ procs' = [p \in DOMAIN procs |->
                            IF procs[p].st = "running"
                            THEN [procs[p] EXCEPT !.killed = TRUE]
                            ELSE procs[p]]
            /\ calls' = [calls EXCEPT ![c].pc = "drain"]
    /\ UNCHANGED <<self, args, environ, hostCwd>>

\* line 107, 141-142: process.kill().  On a process that has exited
\* meanwhile it raises ProcessLookupError, whose text is empty
Kill(c) ==
    /\ calls[c].pc = "kill"
    /\ IF procs[calls[c].process].st = "exited"
       THEN /\ calls' = [calls EXCEPT ![c].pc = "done", ![c].exc = "ProcessLookupError",
                                      ![c].result = ErrorMessage("")]
            /\ UNCHANGED procs
       ELSE /\ procs' = [procs EXCEPT ![calls[c].process].killed = TRUE]
            /\ calls' = [calls EXCEPT ![c].pc = "drain"]
    /\ UNCHANGED <<self, args, environ, hostCwd>>

\* lines 110-114: process.wait() returns within 5 seconds
DrainDone(c) ==
    /\ calls[c].pc = "drain"
    /\ procs[calls[c].process].st = "exited"
    /\ calls' = [calls EXCEPT ![c].pc = "done", ![c].drain = "completed",
                              ![c].result = TimeoutMessage(self.timeout)]
    /\ UNCHANGED <<self, args, environ, hostCwd, procs>>

\* DrainTimeout for `await process.wait()` without a bound
DrainUnbounded(c) ==
    /\ calls[c].pc = "drain"
    /\ procs[calls[c].process].st = "exited"
    /\ calls' = [calls EXCEPT ![c].pc = "done", ![c].drain = "completed",
                              ![c].result = TimeoutMessage(self.timeout)]
    /\ UNCHANGED <<self, args, environ, hostCwd, procs>>

\* lines 110-114: the 5 seconds pass first
DrainTimeout(c) ==
    /\ calls[c].pc = "drain"
    /\ calls' = [calls EXCEPT ![c].pc = "done", ![c].drain = "timed out",
                              ![c].result = TimeoutMessage(self.timeout)]
    /\ UNCHANGED <<self, args, environ, hostCwd, procs>>

\* str.replace("'", "'\"'\"'")
RECURSIVE EscapeQuotes(_)
EscapeQuotes(s) ==
    IF s = <<>> THEN <<>>
    ELSE (IF Head(s) = "'" THEN <<"'", "\"", "'", "\"", "'">> ELSE <<Head(s)>>)
         \o EscapeQuotes(Tail(s))

\* f"history append '{escaped_cmd}'"
HistoryCommand(command) ==
    <<"h","i","s","t","o","r","y"," ","a","p","p","e","n","d"," ","'">>
    \o EscapeQuotes(command) \o <<"'">>

\* lines 184-193, 139: the history process is created; execute returns
\* without waiting for it
HistoryOk(c) ==
    /\ calls[c].pc = "history"
    /\ procs' = Append(procs, NewProcess(c, "history", self.shell,
                                         HistoryCommand(calls[c].command),
                                         hostCwd, environ))
    /\ calls' = [calls EXCEPT ![c].pc = "done", ![c].history = "created"]
    /\ UNCHANGED <<self, args, environ, hostCwd>>

\* HistoryFail without the handler of lines 194-195: the exception reaches
\* the handler of lines 141-142
HistoryFailSurfaces(c) ==
    /\ calls[c].pc = "history"
    /\ calls' = [calls EXCEPT ![c].pc = "done", ![c].history = "failed",
                              ![c].exc = "Exception",
                              ![c].result = ErrorMessage("Exception")]
    /\ UNCHANGED <<self, args, environ, hostCwd, procs>>

\* lines 184-195, 139: its creation raises, which is ignored
HistoryFail(c) ==
    /\ calls[c].pc = "history"
    /\ calls' = [calls EXCEPT ![c].pc = "done", ![c].history = "failed"]
    /\ UNCHANGED <<self, args, environ, hostCwd, procs>>

(***************************************************************************)
(* Inputs                                                                  *)
(***************************************************************************)
\* directories: the workspace /w, another directory /e
DirW == <<"/","w">>

DirE == <<"/","e">>

\* shutil.which on three hosts: fish and bash installed, bash and sh, none
WhichFish ==
    [name \in Range(ShellNames) |->
        IF name = <<"f","i","s","h">> THEN Some(<<"/","b","i","n","/","f","i","s","h">>)
        ELSE IF name = <<"b","a","s","h">> THEN Some(<<"/","b","i","n","/","b","a","s","h">>)
        ELSE None]

WhichBash ==
    [name \in Range(ShellNames) |->
        IF name = <<"b","a","s","h">> THEN Some(<<"/","b","i","n","/","b","a","s","h">>)
        ELSE IF name = <<"s","h">> THEN Some(BinSh)
        ELSE None]

WhichNone == [name \in Range(ShellNames) |-> None]

\* os.environ with PATH set, and without
EnvWithPath ==
    [v \in EnvNames |-> IF v = "PATH" THEN Some(<<"/","b","i","n">>) ELSE Some(<<"/","r">>)]

EnvNoPath == [v \in EnvNames |-> IF v = "PATH" THEN None ELSE Some(<<"/","r">>)]

\* commands
CmdLs == <<"l","s">>

CmdRm == <<"r","m"," ","-","r","f"," ","x">>

CmdRmUpper == <<"R","M"," ","-","R","f"," ","x">>

CmdDropLower == <<"d","r","o","p">>

CmdDropUpper == <<"D","R","O","P">>

CmdDropMixed == <<"D","r","o","p">>

CmdGit == <<"g","i","t"," ","s","t">>

CmdTraversal == <<"l","s"," ",".",".","/","x">>

CmdInside == <<"l","s"," ","/","w","/","a">>

CmdOutside == <<"l","s"," ","/","e","/","p">>

CmdQuote == <<"e","c","h","o"," ","'","a","'">>

\* commands that more than one of the guard's checks would stop
CmdRmOutside == <<"r","m"," ","-","r"," ","/","e">>

CmdGitTraversal == <<"g","i","t"," ",".",".","/","x">>

CmdTraversalOutside == <<"l","s"," ",".",".","/"," ","/","e">>

CmdGitOutside == <<"g","i","t"," ","/","e">>

\* a command naming the working directory itself
CmdWorkdir == <<"l","s"," ","/","w">>

\* a command naming a Windows path
CmdWin == <<"l","s"," ","c",":","\\","x">>

\* what a subprocess can have written and returned when it exits
Out(n) == [n |-> n, blank |-> FALSE]

Blank(n) == [n |-> n, blank |-> TRUE]

Exits(stdouts, stderrs, returncodes) ==
    [stdout : stdouts, stderr : stderrs, returncode : returncodes]

\* the constructor's arguments
ArgsOf(timeouts, working_dirs, denies, allows, restricts, appends) ==
    [timeout : timeouts, working_dir : working_dirs, deny_patterns : denies,
     allow_patterns : allows, restrict_to_workspace : restricts, path_append : appends]

\* the state after construction, for one of the given arguments and hosts
InitWith(argss, whichs, environs, hostCwds) ==
    /\ args \in argss
    /\ self \in {__init__(args, which) : which \in whichs}
    /\ environ \in environs
    /\ hostCwd \in hostCwds
    /\ calls = [c \in Calls |-> IdleCall]
    /\ procs = <<>>

\* the steps of call c, for the given inputs
Step(c, commands, working_dirs, exits) ==
    \/ \E command \in commands, working_dir \in working_dirs :
          Execute(c, command, working_dir)
    \/ SpawnOk(c)
    \/ SpawnFail(c)
    \/ \E p \in DOMAIN procs, x \in exits :
          procs[p].owner = c /\ ProcExit(p, x.stdout, x.stderr, x.returncode)
    \/ CommunicateDone(c)
    \/ CommunicateFail(c)
    \/ Timeout(c)
    \/ Kill(c)
    \/ DrainDone(c)
    \/ DrainTimeout(c)
    \/ HistoryOk(c)
    \/ HistoryFail(c)

\* what the event loop does for call c once it is suspended: none of these
\* waits without a bound except for the subprocess creations
Resume(c) ==
    \/ SpawnOk(c)
    \/ SpawnFail(c)
    \/ CommunicateDone(c)
    \/ CommunicateFail(c)
    \/ Timeout(c)
    \/ Kill(c)
    \/ DrainDone(c)
    \/ DrainTimeout(c)
    \/ HistoryOk(c)
    \/ HistoryFail(c)

(***************************************************************************)
(* Spec: concurrent execute calls on one tool with the default             *)
(* configuration, on a host with fish and on one without.                  *)
(***************************************************************************)
Init ==
    InitWith(ArgsOf({60}, {None}, {None}, {None}, {FALSE}, {<<>>}),
             {WhichFish, WhichBash}, {EnvWithPath}, {Some(DirW)})

Next ==
    \E c \in Calls :
        Step(c, {CmdLs, CmdRm}, {None}, Exits({Out(5)}, {Out(0)}, {0, 1}))

Spec == Init /\ [][Next]_vars

(***************************************************************************)
(* FairSpec: concurrent calls of one command, where the event loop resumes *)
(* every call that can go on.  Nothing makes a subprocess exit.            *)
(***************************************************************************)
NextFair ==
    \E c \in Calls : Step(c, {CmdLs}, {None}, Exits({Out(5)}, {Out(0)}, {0}))

FairSpec == Init /\ [][NextFair]_vars /\ \A c \in Calls : WF_vars(Resume(c))

(***************************************************************************)
(* SpecGuard: one call, over the configurations and the commands that the  *)
(* guard tells apart.                                                      *)
(***************************************************************************)
InitGuard ==
    InitWith(ArgsOf({60}, {None, Some(DirW)},
                    {None, Some(<<>>), Some(<<Lit(CmdDropLower)>>),
                     Some(<<Lit(CmdDropUpper)>>), Some(<<Bad>>)},
                    {None, Some(<<Cat(<<Bol, Lit(<<"g","i","t"," ">>)>>)>>)},
                    BOOLEAN, {<<>>}),
             {WhichFish, WhichBash, WhichNone}, {EnvWithPath},
             {Some(DirW), Some(DirE), None})

GuardCommands ==
    {CmdLs, CmdRm, CmdRmUpper, CmdDropLower, CmdDropUpper, CmdDropMixed, CmdGit,
     CmdTraversal, CmdInside, CmdOutside, CmdQuote, CmdRmOutside,
     CmdGitTraversal, CmdTraversalOutside, CmdGitOutside, CmdWorkdir, CmdWin}

NextGuard ==
    Step(1, GuardCommands, {None, Some(DirW), Some(DirE)},
         Exits({Out(5)}, {Out(0)}, {0, 1}))

SpecGuard == InitGuard /\ [][NextGuard]_vars

(***************************************************************************)
(* SpecRender: one call of a command, over what the command can write and  *)
(* return.                                                                 *)
(***************************************************************************)
InitRender ==
    InitWith(ArgsOf({1, 60}, {None}, {None}, {None}, {FALSE}, {<<>>, <<"/","o">>}),
             {WhichFish, WhichBash}, {EnvWithPath, EnvNoPath}, {Some(DirW)})

NextRender ==
    Step(1, {CmdLs}, {None},
         Exits({Out(0), Out(5), Out(9995), Out(10000), Out(10001), Out(12345)},
               {Out(0), Blank(3), Out(4)}, {0, 1, 127}))

SpecRender == InitRender /\ [][NextRender]_vars

(***************************************************************************)
(* Properties                                                              *)
(***************************************************************************)
\* the subprocesses call c created
ProcsOf(c) == {p \in DOMAIN procs : procs[p].owner = c}

\* the call has returned the result of a command that completed in time
Completed(c) ==
    /\ calls[c].pc \in {"history", "done"}
    /\ calls[c].process # 0
    /\ ~calls[c].timedOut
    /\ calls[c].exc = ""

\* the string starts with "Error:" or "Error executing command:"
ErrorPrefixed(result) ==
    /\ result # <<>>
    /\ result[1].k = "lit"
    /\ result[1].n = Len(result[1].s)
    /\ result[1].s \in GuardMessages
                       \cup {"Error: Command timed out after ", "Error executing command: "}

\* C1: a subprocess of a call exists only after the guard has decided, and
\* decided to allow; a call whose command the guard blocks creates no
\* subprocess, neither for the command nor for the history, and returns
\* the guard's message.
C1_NoProcessWhenBlocked ==
    \A c \in Calls :
        /\ ProcsOf(c) # {} => calls[c].guard = "None"
        /\ calls[c].guard \notin {"", "raise"} =>
            LET decision == _guard_command(self, calls[c].command, calls[c].cwd, hostCwd)
            IN /\ ProcsOf(c) # {} => (calls[c].guard = "None" /\ decision = Return("None"))
               /\ decision.ret \in GuardMessages =>
                     /\ ProcsOf(c) = {}
                     /\ calls[c].pc = "done"
                     /\ calls[c].result = <<LitP(decision.ret)>>

\* a call on a host with fish was blocked for a path outside the working
\* directory, and has returned
C1_Witness ==
    \E c \in Calls :
        /\ calls[c].pc = "done"
        /\ calls[c].result = <<LitP(MsgOutside)>>
        /\ UsesFish
        /\ ProcsOf(c) = {}

\* C2: a call whose wait timed out returns exactly the timeout message,
\* whatever the kill and the drain come to.
C2_TimeoutResult ==
    \A c \in Calls :
        (calls[c].timedOut /\ calls[c].pc = "done")
            => calls[c].result = TimeoutMessage(self.timeout)

\* C3 as stated: when a call has returned the timeout message its
\* subprocess has terminated.
C3_TerminatedAtReturn ==
    \A c \in Calls :
        (calls[c].pc = "done" /\ calls[c].result = TimeoutMessage(self.timeout))
            => procs[calls[c].process].st = "exited"

\* C3: when a call has returned the timeout message its subprocess has
\* been sent the kill, and has terminated unless the 5-second drain itself
\* timed out.
C3_KilledAtReturn ==
    \A c \in Calls :
        (calls[c].pc = "done" /\ calls[c].result = TimeoutMessage(self.timeout))
            => /\ calls[c].process # 0
               /\ procs[calls[c].process].killed
               /\ calls[c].drain \in {"completed", "timed out"}
               /\ calls[c].drain = "completed" => procs[calls[c].process].st = "exited"

\* a call has returned the timeout message after the drain timed out, and
\* its subprocess still runs
C3_Witness ==
    \E c \in Calls :
        /\ calls[c].pc = "done"
        /\ calls[c].result = TimeoutMessage(self.timeout)
        /\ calls[c].drain = "timed out"
        /\ procs[calls[c].process].st = "running"
        /\ procs[calls[c].process].killed

\* C4: no call raises, and a call that failed otherwise than by a non-zero
\* exit of a completed command returns a string that starts with "Error:"
\* or "Error executing command:".
C4_NeverRaises ==
    \A c \in Calls :
        /\ calls[c].pc # "raised"
        /\ (calls[c].pc = "done" /\ ~Completed(c)) => ErrorPrefixed(calls[c].result)

\* C5: under fair scheduling of the event loop every call that is
\* suspended returns in the end, also when its subprocess never exits,
\* killed or not, and without waiting for the history process.
C5_EveryCallReturns ==
    \A c \in Calls :
        (calls[c].pc \in {"spawn", "communicate", "kill", "drain", "history"})
            ~> (calls[c].pc = "done")

\* one call has returned although its killed subprocess still runs, another
\* although the history process it created still runs
C5_Witness ==
    \E c, d \in Calls :
        /\ calls[c].pc = "done"
        /\ calls[c].drain = "timed out"
        /\ procs[calls[c].process].st = "running"
        /\ calls[d].pc = "done"
        /\ calls[d].history = "created"
        /\ \E p \in ProcsOf(d) : procs[p].kind = "history" /\ procs[p].st = "running"

\* C6 as stated: a call that ran its command has created exactly one
\* subprocess.
C6_OneSubprocess ==
    \A c \in Calls :
        (calls[c].pc = "done" /\ calls[c].process # 0) => Cardinality(ProcsOf(c)) = 1

\* the subprocesses of call c are its command's, once created, and at
\* most one history process, which only a completed command on fish has
SubprocessesOf(c) ==
    LET commands == {p \in ProcsOf(c) : procs[p].kind = "command"}
        histories == {p \in ProcsOf(c) : procs[p].kind = "history"}
    IN /\ commands = IF calls[c].process = 0 THEN {} ELSE {calls[c].process}
       /\ calls[c].pc \in {"communicate", "kill", "drain", "history"} => calls[c].process # 0
       /\ calls[c].pc \in {"idle", "spawn", "raised"} => calls[c].process = 0
       /\ Cardinality(histories) <= 1
       /\ histories # {} <=> calls[c].history = "created"
       /\ histories # {} => (UsesFish /\ Completed(c))

\* a step changes the local state and the subprocesses of one call at
\* most, and never the tool's attributes
NoSharedState ==
    /\ self' = self
    /\ \A c, d \in Calls :
          (c # d /\ calls'[c] # calls[c]) =>
              /\ calls'[d] = calls[d]
              /\ \A p \in ProcsOf(d) : procs'[p] = procs[p]

\* C6: a call creates at most one subprocess for its command (exactly one
\* once the guard has allowed it and the creation has succeeded) and, on
\* fish after the command completed, at most one more for the history; no
\* call changes the attributes of the tool or another call's state or
\* subprocesses.
C6_OwnSubprocesses == [](\A c \in Calls : SubprocessesOf(c)) /\ [][NoSharedState]_vars

\* two calls on fish have completed, with two subprocesses each
C6_Witness ==
    \E c, d \in Calls :
        /\ c # d
        /\ Cardinality(ProcsOf(c)) = 2
        /\ Cardinality(ProcsOf(d)) = 2
        /\ calls[c].pc = "done"
        /\ calls[d].pc = "done"

\* C7 as stated: on every path of a call the history is attempted if and
\* only if the shell's path contains "fish".
C7_HistoryIffFish ==
    \A c \in Calls :
        calls[c].pc \in {"done", "raised"} => (calls[c].history # "" <=> UsesFish)

\* C7: a call attempts the history if and only if the shell's path
\* contains "fish" and the command completed in time; a call that is
\* blocked, times out or fails attempts none, whatever the shell.
C7_HistoryIffFishAndCompleted ==
    \A c \in Calls :
        calls[c].pc \in {"done", "raised"} =>
            (calls[c].history # "" <=> (UsesFish /\ Completed(c)))

\* a call on fish has completed and created the history process
C7_Witness ==
    \E c \in Calls :
        /\ calls[c].pc = "done"
        /\ UsesFish
        /\ calls[c].history = "created"
        /\ procs[calls[c].process].st = "exited"

\* the string holds "\nExit code: " and the code, whole
HasExitAnnotation(result, returncode) ==
    \E j \in 1..(Len(result) - 1) :
        result[j] = LitP("\nExit code: ") /\ result[j + 1] = IntP(returncode)

\* C8: the result of a completed command holds the exit-code annotation if
\* and only if the exit code is not zero.
C8_ExitAnnotationIffNonZero ==
    \A c \in Calls :
        Completed(c) =>
            LET process == procs[calls[c].process]
            IN HasExitAnnotation(calls[c].result, process.returncode)
                  <=> process.returncode # 0

\* the last three pieces of the string are the marker for n characters
EndsWithMarker(result, n) ==
    /\ Len(result) > 3
    /\ SubSeq(result, Len(result) - 2, Len(result))
          = <<LitP("\n... (truncated, "), IntP(n), LitP(" more chars)")>>

\* a is the text of the first TextLen(a) characters of b
IsTextPrefix(a, b) ==
    /\ Len(a) <= Len(b)
    /\ \A j \in 1..Len(a) :
          /\ a[j].n >= 1
          /\ a[j].n <= b[j].n
          /\ j < Len(a) => a[j] = b[j]
          /\ a[j] = [b[j] EXCEPT !.n = a[j].n]

\* C9: a rendered text of at most 10000 characters is returned as it is,
\* without a marker; of a longer one the first 10000 characters are
\* returned, followed (on a new line) by the marker with the exact number
\* of characters left out.
C9_Truncation ==
    \A c \in Calls :
        Completed(c) =>
            LET process == procs[calls[c].process]
                text == Joined(OutputParts(process.stdout, process.stderr,
                                           process.returncode))
                result == calls[c].result
                body == SubSeq(result, 1, Len(result) - 3)
            IN IF TextLen(text) <= max_len
               THEN /\ result = text
                    /\ \A j \in DOMAIN result : result[j].s # "\n... (truncated, "
               ELSE /\ EndsWithMarker(result, TextLen(text) - max_len)
                    /\ TextLen(body) = max_len
                    /\ IsTextPrefix(body, text)

\* a command that wrote 12345 characters has completed: 2345 are left out
C9_Witness ==
    \E c \in Calls :
        /\ Completed(c)
        /\ procs[calls[c].process].stdout.n = 12345
        /\ procs[calls[c].process].returncode = 0
        /\ EndsWithMarker(calls[c].result, 2345)

\* the pattern with re.IGNORECASE
RECURSIVE IgnoreCase(_)
IgnoreCase(re) ==
    CASE re.t \in {"chr", "not"} -> [re EXCEPT !.cs = {LowerChar(ch) : ch \in re.cs}]
      [] re.t \in {"cat", "alt"} ->
             [re EXCEPT !.rs = [k \in DOMAIN re.rs |-> IgnoreCase(re.rs[k])]]
      [] re.t = "rep" -> [re EXCEPT !.r = IgnoreCase(re.r)]
      [] OTHER -> re

\* the text matches the pattern in some combination of cases
MatchesAnyCase(re, s) == Compiles(re) /\ Search(IgnoreCase(re), Lower(s))

\* C10: a command that matches one of the deny patterns, whatever the
\* cases of its letters, is blocked as dangerous, and no subprocess is
\* created for it.
C10_DenyIgnoresCase ==
    \A c \in Calls :
        (/\ calls[c].guard \notin {"", "raise"}
         /\ \E k \in DOMAIN self.deny_patterns :
               MatchesAnyCase(self.deny_patterns[k], Strip(calls[c].command)))
            => /\ calls[c].guard = MsgDangerous
               /\ ProcsOf(c) = {}

\* C11 as stated: when the constructor was given a list of deny patterns,
\* empty or not, the guard blocks a command as dangerous exactly when a
\* pattern of that list is found in it; the built-in patterns play no part.
C11_ProvidedDenyOverrides ==
    args.deny_patterns.some =>
        \A c \in Calls :
            calls[c].guard \notin {"", "raise"} =>
                (calls[c].guard = MsgDangerous
                    <=> SearchAny(args.deny_patterns.v,
                                  Lower(Strip(calls[c].command))) = "match")

\* call c's guard returned a decision (it did not raise)
Decided(c) == calls[c].guard \notin {"", "raise"}

\* the trimmed, lower-cased command the deny and allow patterns are searched in
LowerOf(c) == Lower(Strip(calls[c].command))

\* C12 as stated: with a non-empty allow-list, a command in which none of
\* its patterns is found is blocked as not allow-listed, and one in which a
\* pattern is found is not; with an empty allow-list no command is blocked
\* as not allow-listed.
C12_AllowListDecides ==
    \A c \in Calls :
        Decided(c) =>
            LET allowed == SearchAny(self.allow_patterns, LowerOf(c))
            IN /\ (self.allow_patterns # <<>> /\ allowed = "none")
                      => calls[c].guard = MsgNotAllowed
               /\ (self.allow_patterns = <<>> \/ allowed = "match")
                      => calls[c].guard # MsgNotAllowed

\* C12, amended: the same, for the commands in which no deny pattern is
\* found; a command in which a deny pattern is found is blocked as
\* dangerous whatever the allow-list.  A command the allow-list lets pass
\* gets the decision of the workspace checks when restrict_to_workspace is
\* set, and is allowed otherwise.
C12_AllowListAfterDeny ==
    \A c \in Calls :
        Decided(c) =>
            LET allowed == SearchAny(self.allow_patterns, LowerOf(c))
                denied == SearchAny(self.deny_patterns, LowerOf(c))
                passes == self.allow_patterns = <<>> \/ allowed = "match"
            IN /\ denied = "match" => calls[c].guard = MsgDangerous
               /\ passes => calls[c].guard # MsgNotAllowed
               /\ (denied = "none" /\ self.allow_patterns # <<>> /\ allowed = "none")
                      => calls[c].guard = MsgNotAllowed
               /\ (denied = "none" /\ passes)
                      => calls[c].guard =
                            IF self.restrict_to_workspace
                            THEN WorkspaceCheck(self, Strip(calls[c].command),
                                                calls[c].cwd, hostCwd).ret
                            ELSE "None"

\* a call was blocked as not allow-listed, and another configuration's
\* allow-list let a command pass to the workspace checks, which blocked it
C12_Witness ==
    \E c \in Calls :
        /\ calls[c].pc = "done"
        /\ self.allow_patterns # <<>>
        /\ \/ /\ calls[c].guard = MsgNotAllowed
              /\ calls[c].command = CmdLs
           \/ /\ calls[c].guard = MsgOutside
              /\ calls[c].command = CmdGitOutside

\* the command of call c contains "../" or "..\"
HasTraversal(c) ==
    \/ Contains(calls[c].command, <<".", ".", "/">>)
    \/ Contains(calls[c].command, <<".", ".", "\\">>)

\* C13 as stated: with restrict_to_workspace set, a command containing
\* "../" or "..\" is blocked as a path traversal.
C13_TraversalBlocked ==
    \A c \in Calls :
        (self.restrict_to_workspace /\ HasTraversal(c) /\ Decided(c))
            => calls[c].guard = MsgTraversal

\* C13, amended: with restrict_to_workspace set, a command containing "../"
\* or "..\" is never allowed and no subprocess is created for it; it is
\* blocked as a path traversal when no deny pattern is found in it and the
\* allow-list lets it pass, whether or not it names absolute paths, and
\* with the reason of the deny or allow check otherwise.
C13_TraversalNeverAllowed ==
    \A c \in Calls :
        (self.restrict_to_workspace /\ HasTraversal(c)) =>
            /\ calls[c].guard # "None"
            /\ ProcsOf(c) = {}
            /\ Decided(c) =>
                  LET allowed == SearchAny(self.allow_patterns, LowerOf(c))
                      denied == SearchAny(self.deny_patterns, LowerOf(c))
                  IN calls[c].guard =
                        IF denied = "match" THEN MsgDangerous
                        ELSE IF self.allow_patterns # <<>> /\ allowed = "none"
                        THEN MsgNotAllowed
                        ELSE MsgTraversal

\* a command with "../" that also names a path outside the working
\* directory was blocked as a path traversal
C13_Witness ==
    \E c \in Calls :
        /\ calls[c].pc = "done"
        /\ self.restrict_to_workspace
        /\ calls[c].command = CmdTraversalOutside
        /\ calls[c].result = <<LitP(MsgTraversal)>>

\* the absolute paths extracted from the command of call c that resolve,
\* and resolve to neither the directory C nor a directory or file below it
PathsOutside(c, C) ==
    LET raws == _extract_absolute_paths(Strip(calls[c].command))
    IN {k \in DOMAIN raws :
           LET p == Resolve(Strip(raws[k]), hostCwd)
           IN ~p.raise /\ ~IsPrefix(C, p.path)}

\* C14 as stated: with restrict_to_workspace set and C the directory call c
\* would spawn in, a command with an extracted path outside C is blocked as
\* outside the working directory, and a command whose extracted paths are
\* all C or below C is allowed.
C14_OutsideBlockedInsideAllowed ==
    \A c \in Calls :
        (self.restrict_to_workspace /\ Decided(c)) =>
            LET C == Resolve(calls[c].cwd, hostCwd)
            IN ~C.raise =>
                  calls[c].guard =
                      IF PathsOutside(c, C.path) # {} THEN MsgOutside ELSE "None"

\* C14, amended: the same for the commands that no deny pattern, allow-list
\* or traversal test stops first; whatever those come to, a command with an
\* extracted path outside C is never allowed and never spawned.
C14_OutsideNeverAllowed ==
    \A c \in Calls :
        (self.restrict_to_workspace /\ Decided(c)) =>
            LET C == Resolve(calls[c].cwd, hostCwd)
                allowed == SearchAny(self.allow_patterns, LowerOf(c))
                denied == SearchAny(self.deny_patterns, LowerOf(c))
                earlier == \/ denied = "match"
                           \/ self.allow_patterns # <<>> /\ allowed = "none"
                           \/ HasTraversal(c)
            IN ~C.raise =>
                  /\ PathsOutside(c, C.path) # {} =>
                        (calls[c].guard # "None" /\ ProcsOf(c) = {})
                  /\ ~earlier =>
                        calls[c].guard =
                            IF PathsOutside(c, C.path) # {} THEN MsgOutside ELSE "None"

\* a call that overrode the configured working directory was blocked for
\* a path inside the configured directory and outside its own
C14_Witness ==
    \E c \in Calls :
        /\ calls[c].pc = "done"
        /\ self.restrict_to_workspace
        /\ self.working_dir = Some(DirW)
        /\ calls[c].cwd = DirE
        /\ calls[c].command = CmdInside
        /\ calls[c].result = <<LitP(MsgOutside)>>

\* C15: the string a completed command returns is the rendering of its own
\* output and exit code, whether the history process was created, failed
\* to be created or was not attempted; recording the history changes
\* neither the result nor the call's way of ending, and never raises.
C15_HistoryKeepsResult ==
    /\ [](\A c \in Calls :
            (Completed(c) /\ calls[c].pc = "done") =>
                LET process == procs[calls[c].process]
                IN calls[c].result =
                      Render(process.stdout, process.stderr, process.returncode))
    /\ [][\A c \in Calls :
            calls[c].pc = "history" =>
                /\ calls'[c].pc \in {"history", "done"}
                /\ calls'[c].result = calls[c].result
                /\ calls'[c].exc = calls[c].exc]_vars

\* a command that wrote output and exited with 1 returned its rendering
\* although the history process could not be created
C15_Witness ==
    \E c \in Calls :
        /\ Completed(c)
        /\ calls[c].pc = "done"
        /\ calls[c].history = "failed"
        /\ procs[calls[c].process].returncode = 1
        /\ procs[calls[c].process].stdout.n = 5
        /\ calls[c].result =
              Render(procs[calls[c].process].stdout, procs[calls[c].process].stderr, 1)

\* the history subprocesses call c created
HistoryProcsOf(c) == {p \in ProcsOf(c) : procs[p].kind = "history"}

\* C16: within a call, a result is rendered only once the command's
\* process has exited, and any result of a spawned command is set only
\* once the process has exited, the wait has timed out or the wait has
\* failed; the history process is launched only after the result has been
\* rendered; and the call returns in the step that launches the history
\* process, without waiting for it.
C16_Ordering ==
    /\ [](\A c \in Calls :
            /\ (calls[c].process # 0 /\ calls[c].result # <<>>) =>
                  \/ procs[calls[c].process].st = "exited"
                  \/ calls[c].timedOut
                  \/ calls[c].exc # ""
            /\ Completed(c) =>
                  /\ procs[calls[c].process].st = "exited"
                  /\ calls[c].result =
                        Render(procs[calls[c].process].stdout,
                               procs[calls[c].process].stderr,
                               procs[calls[c].process].returncode)
            /\ (calls[c].history # "" \/ HistoryProcsOf(c) # {}) => Completed(c))
    /\ [][\A c \in Calls :
            HistoryProcsOf(c)' # HistoryProcsOf(c) =>
                /\ calls[c].pc = "history"
                /\ calls'[c].pc = "done"
                /\ calls'[c].result = calls[c].result]_vars

\* a call has returned the rendering of its command's output while the
\* history process it launched is still running
C16_Witness ==
    \E c \in Calls :
        /\ Completed(c)
        /\ calls[c].pc = "done"
        /\ calls[c].result # <<>>
        /\ \E p \in HistoryProcsOf(c) : procs[p].st = "running"

\* C17: calls in flight together hold different process handles; the
\* result of a completed call is the rendering of the output and exit code
\* of its own process; a subprocess is sent a kill only by the call that
\* created it for its command, after that call's wait timed out; and no
\* step changes the tool's attributes or the host's environment and
\* directory.
C17_NoInterference ==
    /\ [](\A c \in Calls :
            /\ calls[c].process # 0 =>
                  /\ procs[calls[c].process].owner = c
                  /\ procs[calls[c].process].kind = "command"
                  /\ \A d \in Calls \ {c} : calls[d].process # calls[c].process
            /\ Completed(c) =>
                  calls[c].result =
                      Render(procs[calls[c].process].stdout,
                             procs[calls[c].process].stderr,
                             procs[calls[c].process].returncode))
    /\ [](\A p \in DOMAIN procs :
            procs[p].killed =>
                /\ calls[procs[p].owner].process = p
                /\ calls[procs[p].owner].timedOut)
    /\ [][/\ self' = self
          /\ environ' = environ
          /\ hostCwd' = hostCwd
          /\ \A p \in DOMAIN procs :
                procs'[p].killed # procs[p].killed =>
                    /\ calls[procs[p].owner].pc = "kill"
                    /\ calls[procs[p].owner].process = p
                    /\ \A d \in Calls \ {procs[p].owner} : calls'[d] = calls[d]]_vars

\* one call timed out and its process was killed while the other call's
\* process ran on, exited with 1 and was rendered
C17_Witness ==
    \E c, d \in Calls :
        /\ c # d
        /\ calls[c].timedOut
        /\ calls[c].pc = "done"
        /\ procs[calls[c].process].killed
        /\ Completed(d)
        /\ calls[d].pc = "done"
        /\ ~procs[calls[d].process].killed
        /\ procs[calls[d].process].returncode = 1
        /\ calls[c].process < calls[d].process

\* the host's PATH, empty when the variable is not set
HostPath == IF environ["PATH"].some THEN environ["PATH"].v ELSE <<>>

\* C18: no step changes the host's environment; the environment of a
\* command's subprocess is the host's in every variable but PATH, and in
\* PATH too when path_append is empty; otherwise its PATH is the host's
\* PATH (empty when unset), the path separator and path_append.
C18_ChildEnvironment ==
    /\ [][environ' = environ]_vars
    /\ [](\A p \in DOMAIN procs :
            procs[p].kind = "command" =>
                /\ \A v \in EnvNames \ {"PATH"} : procs[p].env[v] = environ[v]
                /\ self.path_append = <<>> => procs[p].env["PATH"] = environ["PATH"]
                /\ self.path_append # <<>> =>
                      procs[p].env["PATH"] = Some(HostPath \o pathsep \o self.path_append))

\* a command ran with PATH "/bin:/o" on a host whose PATH is "/bin", and
\* the call has returned
C18_Witness ==
    \E c \in Calls :
        /\ calls[c].pc = "done"
        /\ calls[c].process # 0
        /\ environ["PATH"] = Some(<<"/","b","i","n">>)
        /\ procs[calls[c].process].env["PATH"] = Some(<<"/","b","i","n",":","/","o">>)
        /\ procs[calls[c].process].env["HOME"] = environ["HOME"]

\* C19: the decision of the guard is the reason of the first check that
\* triggers, in the order deny patterns, allow-list, path traversal, path
\* outside the working directory (the last two only with
\* restrict_to_workspace), and is to allow only when none triggers.
C19_FirstCheckDecides ==
    \A c \in Calls :
        Decided(c) =>
            LET C == Resolve(calls[c].cwd, hostCwd)
                deny == SearchAny(self.deny_patterns, LowerOf(c)) = "match"
                notAllowed ==
                    /\ self.allow_patterns # <<>>
                    /\ SearchAny(self.allow_patterns, LowerOf(c)) = "none"
                traversal == self.restrict_to_workspace /\ HasTraversal(c)
                outside ==
                    /\ self.restrict_to_workspace
                    /\ ~C.raise
                    /\ PathsOutside(c, C.path) # {}
            IN calls[c].guard =
                  IF deny THEN MsgDangerous
                  ELSE IF notAllowed THEN MsgNotAllowed
                  ELSE IF traversal THEN MsgTraversal
                  ELSE IF outside THEN MsgOutside
                  ELSE "None"

\* a command that a deny pattern, the allow-list and the path check would
\* each stop was blocked as dangerous
C19_Witness ==
    \E c \in Calls :
        /\ calls[c].pc = "done"
        /\ self.restrict_to_workspace
        /\ self.allow_patterns # <<>>
        /\ calls[c].command = CmdRmOutside
        /\ calls[c].cwd = DirW
        /\ calls[c].result = <<LitP(MsgDangerous)>>

\* C20: when a call that created the subprocess for its command has
\* returned, by completion, by timeout or with "Error executing command:"
\* after a failure of the wait, that subprocess has exited or has been sent
\* a kill.
C20_ExitedOrKilledAtReturn ==
    \A c \in Calls :
        (calls[c].pc = "done" /\ calls[c].process # 0) =>
            \/ procs[calls[c].process].st = "exited"
            \/ procs[calls[c].process].killed

====
